---------------------------- MODULE Spec2Model ----------------------------
(***************************************************************************)
(* Browsing-history recommender (Brower-History-Recommender/recommend.py). *)
(*                                                                         *)
(* Representation.                                                         *)
(*   - A Python str is a sequence of one-character strings; None for a     *)
(*     str is NoneText, None for an integer column is None.                *)
(*   - A Python dict is a sequence of <<key, value>> pairs in insertion    *)
(*     order, with unique keys.                                            *)
(*   - A Python float is a binary fixed-point number with FracBits         *)
(*     fractional bits (the integer x stands for x / Scale).  Every        *)
(*     multiplication, division, square root and logarithm rounds its      *)
(*     exact result to the nearest representable value, as IEEE-754        *)
(*     arithmetic does at 53 bits; additions of representable values are   *)
(*     exact here.                                                         *)
(*   - A datetime is a whole number of days since CHROME_EPOCH; the local  *)
(*     time zone is UTC.                                                   *)
(***************************************************************************)
EXTENDS Integers, Sequences, FiniteSets, TLC

\* ------------------------------------------------------------------------
\* Bounds of the model
\* ------------------------------------------------------------------------
MaxRows == 3

FracBits == 8

MaxVecLen == 2

MaxTextLen == 4

\* ------------------------------------------------------------------------
\* Python values
\* ------------------------------------------------------------------------
None == -1

NoneText == <<"None">>

\* the value of a call that raised ValueError
ValueError == -3

Scale == 2 ^ FracBits

Range(s) == {s[i] : i \in 1..Len(s)}

Min(a, b) == IF a <= b THEN a ELSE b

Max(a, b) == IF a >= b THEN a ELSE b

LowerAZ == <<"a","b","c","d","e","f","g","h","i","j","k","l","m","n","o","p","q","r","s","t","u","v","w","x","y","z">>

UpperAZ == <<"A","B","C","D","E","F","G","H","I","J","K","L","M","N","O","P","Q","R","S","T","U","V","W","X","Y","Z">>

Digits == <<"0","1","2","3","4","5","6","7","8","9">>

IndexOf(s, x) == CHOOSE i \in 1..Len(s) : s[i] = x

\* str.lower() on one character
LowerChar(c) == IF c \in Range(UpperAZ) THEN LowerAZ[IndexOf(UpperAZ, c)] ELSE c

\* str.lower()
Lower(text) == [i \in 1..Len(text) |-> LowerChar(text[i])]

\* code-point order of the characters a token or a host can hold
CodePoints == <<"-",".","0","1","2","3","4","5","6","7","8","9","_","a","b","c","d","e","f","g","h","i","j","k","l","m","n","o","p","q","r","s","t","u","v","w","x","y","z">>

Ord(c) == IndexOf(CodePoints, c)

\* s < t for Python strings (lexicographic by code point)
RECURSIVE StrLess(_, _)
StrLess(s, t) ==
  IF t = <<>> THEN FALSE
  ELSE IF s = <<>> THEN TRUE
  ELSE IF s[1] = t[1] THEN StrLess(Tail(s), Tail(t))
  ELSE Ord(s[1]) < Ord(t[1])

\* ------------------------------------------------------------------------
\* Module constants
\* ------------------------------------------------------------------------
STOPWORDS ==
  { <<"a">>, <<"a","n">>, <<"a","n","d">>, <<"a","r","e">>, <<"a","s">>, <<"a","t">>, <<"b","e">>, <<"b","u","t">>, <<"b","y">>, <<"f","o","r">>,
    <<"f","r","o","m">>, <<"h","a","s">>, <<"h","a","v","e">>, <<"i","f">>, <<"i","n">>, <<"i","n","t","o">>, <<"i","s">>, <<"i","t">>, <<"i","t","s">>,
    <<"o","f">>, <<"o","n">>, <<"o","r">>, <<"t","h","a","t">>, <<"t","h","e">>, <<"t","h","e","i","r">>, <<"t","h","e","r","e">>, <<"t","o">>, <<"w","a","s">>,
    <<"w","e","r","e">>, <<"w","i","l","l">>, <<"w","i","t","h">>, <<"y","o","u">>, <<"y","o","u","r">> }

\* the character class [a-z0-9] of TOKEN_RE
TokenChars == Range(LowerAZ) \cup Range(Digits)

\* the repetition {3,} of TOKEN_RE
TokenMinLen == 3

CHROME_EPOCH == 0

DEFAULT_EXCLUDE_HOSTS ==
  { <<"a","c","c","o","u","n","t","s",".","g","o","o","g","l","e",".","c","o","m">>, <<"a","u","t","h",".","o","p","e","n","a","i",".","c","o","m">>, <<"m","a","i","l",".","g","o","o","g","l","e",".","c","o","m">>,
    <<"g","m","a","i","l",".","c","o","m">>, <<"l","o","g","i","n",".","m","i","c","r","o","s","o","f","t","o","n","l","i","n","e",".","c","o","m">>, <<"l","o","g","i","n",".","l","i","v","e",".","c","o","m">>,
    <<"g","i","t","h","u","b",".","c","o","m">>, <<"x",".","c","o","m">>, <<"t","w","i","t","t","e","r",".","c","o","m">>, <<"w","w","w",".","l","i","n","k","e","d","i","n",".","c","o","m">>,
    <<"l","i","n","k","e","d","i","n",".","c","o","m">>, <<"f","a","c","e","b","o","o","k",".","c","o","m">>, <<"w","w","w",".","f","a","c","e","b","o","o","k",".","c","o","m">> }

\* A compiled regular expression: its pattern text and the literal
\* alternatives it searches for (re.IGNORECASE).
NeverPattern == <<"$","^">>

DEFAULT_EXCLUDE_PATTERNS ==
  [ pattern |-> <<"(","l","o","g","i","n","|","s","i","g","n","i","n","|","s","i","g","n","-","i","n","|","s","i","g","n","_","i","n","|","s","i","g","n","u","p","|","s","i","g","n","-","u","p","|","o","a","u","t","h","|","s","s","o","|","a","c","c","o","u","n","t","|","a","c","c","o","u","n","t","s","|","a","u","t","h","|","c","a","l","l","b","a","c","k",")">>,
    alts |-> << <<"l","o","g","i","n">>, <<"s","i","g","n","i","n">>, <<"s","i","g","n","-","i","n">>, <<"s","i","g","n","_","i","n">>, <<"s","i","g","n","u","p">>,
                <<"s","i","g","n","-","u","p">>, <<"o","a","u","t","h">>, <<"s","s","o">>, <<"a","c","c","o","u","n","t">>, <<"a","c","c","o","u","n","t","s">>,
                <<"a","u","t","h">>, <<"c","a","l","l","b","a","c","k">> >> ]

\* ------------------------------------------------------------------------
\* chrome_time_to_dt, tokenize, build_docs
\* ------------------------------------------------------------------------
chrome_time_to_dt(value) ==
  IF value = None THEN None ELSE CHROME_EPOCH + value

\* TOKEN_RE.findall(text): left to right, each maximal run of TokenChars
\* that has at least TokenMinLen characters.  run is the run being read.
RECURSIVE FindAll(_, _)
FindAll(text, run) ==
  IF text = <<>>
  THEN IF Len(run) >= TokenMinLen THEN <<run>> ELSE <<>>
  ELSE IF text[1] \in TokenChars
       THEN FindAll(Tail(text), Append(run, text[1]))
       ELSE (IF Len(run) >= TokenMinLen THEN <<run>> ELSE <<>>)
            \o FindAll(Tail(text), <<>>)

NotStopword(t) == t \notin STOPWORDS

\* tokenize without text.lower()
tokenizeCased(text) ==
  IF text = NoneText \/ text = <<>> THEN <<>>
  ELSE SelectSeq(FindAll(text, <<>>), NotStopword)

tokenize(text) ==
  IF text = NoneText \/ text = <<>> THEN <<>>
  ELSE SelectSeq(FindAll(Lower(text), <<>>), NotStopword)

\* str.replace("/", " ")
ReplaceSlash(text) == [i \in 1..Len(text) |-> IF text[i] = "/" THEN " " ELSE text[i]]

\* urlparse(url): a url is the record [netloc, path] of the text between
\* "http://" and the first "/", and the text from that "/" on.  hostname is
\* the lower-cased netloc, None (NoneText) when the netloc is empty.
UrlHostname(url) == IF url.netloc = <<>> THEN NoneText ELSE Lower(url.netloc)

\* urlparse raises ValueError("Invalid IPv6 URL") for a netloc that holds
\* one of "[" and "]" without the other
UrlParseFails(url) ==
  \/ "[" \in Range(url.netloc) /\ "]" \notin Range(url.netloc)
  \/ "]" \in Range(url.netloc) /\ "[" \notin Range(url.netloc)

UrlText(url) == <<"h","t","t","p",":","/","/">> \o url.netloc \o url.path

BuildDoc(row) ==
  LET title == IF row[3] = NoneText THEN <<>> ELSE row[3]
      visit_count == IF row[4] = None THEN 0 ELSE row[4]
      hostname == UrlHostname(row[2])
      host == IF hostname = NoneText THEN <<>> ELSE hostname
      path == ReplaceSlash(row[2].path)
  IN [ id |-> row[1],
       url |-> row[2],
       title |-> title,
       visit_count |-> visit_count,
       last_visit |-> chrome_time_to_dt(row[5]),
       host |-> host,
       tokens |-> tokenize(title) \o tokenize(host) \o tokenize(path) ]

\* urlparse raises on a row
BuildRaises(rows) == \E i \in 1..Len(rows) : UrlParseFails(rows[i][2])

\* the list of documents, or ValueError when urlparse raises on a row
build_docs(rows) ==
  IF BuildRaises(rows) THEN ValueError
  ELSE [i \in 1..Len(rows) |-> BuildDoc(rows[i])]

\* ------------------------------------------------------------------------
\* float arithmetic
\* ------------------------------------------------------------------------
\* a / b rounded to the nearest integer (a >= 0, b > 0)
RoundDiv(a, b) == (2 * a + b) \div (2 * b)

\* x * y
FMul(x, y) == RoundDiv(x * y, Scale)

\* x / y, y # 0
FDiv(x, y) == RoundDiv(x * Scale, y)

RECURSIVE FloorSqrt(_, _, _)
FloorSqrt(n, lo, hi) ==
  IF lo >= hi THEN lo
  ELSE LET mid == (lo + hi + 1) \div 2
       IN IF mid * mid <= n THEN FloorSqrt(n, mid, hi) ELSE FloorSqrt(n, lo, mid - 1)

\* math.sqrt(x)
FSqrt(x) ==
  LET n == x * Scale
      r == FloorSqrt(n, 0, Min(n, 46340))
  IN IF n - r * r > r THEN r + 1 ELSE r

\* ln(k) for k = 1..8, in units of 2^-16
LnTable == <<0, 45426, 71999, 90852, 105476, 117425, 127527, 136278>>

\* math.log(p / q) for integers 1 <= q <= p
FLogRatio(p, q) == RoundDiv(LnTable[p] - LnTable[q], 2 ^ (16 - FracBits))

\* ------------------------------------------------------------------------
\* dict
\* ------------------------------------------------------------------------
DictHas(d, k) == \E i \in 1..Len(d) : d[i][1] = k

\* d.get(k, default)
DictGet(d, k, default) ==
  IF DictHas(d, k) THEN d[CHOOSE i \in 1..Len(d) : d[i][1] = k][2] ELSE default

\* d[k] = v
DictSet(d, k, v) ==
  IF DictHas(d, k)
  THEN [i \in 1..Len(d) |-> IF d[i][1] = k THEN <<k, v>> ELSE d[i]]
  ELSE Append(d, <<k, v>>)

\* list(d.keys())
DictKeys(d) == [i \in 1..Len(d) |-> d[i][1]]

RECURSIVE SumSeq(_)
SumSeq(s) == IF s = <<>> THEN 0 ELSE s[1] + SumSeq(Tail(s))

\* ------------------------------------------------------------------------
\* tfidf_vectors, cosine, aggregate_vector
\* ------------------------------------------------------------------------
\* DocFreq for a first loop over doc["tokens"] instead of set(doc["tokens"])
DocFreqPerOccurrence(docs, t) ==
  SumSeq([i \in 1..Len(docs) |-> Cardinality({k \in 1..Len(docs[i].tokens) : docs[i].tokens[k] = t})])

\* df[t]: the number of documents whose token set holds t
DocFreq(docs, t) == Cardinality({i \in 1..Len(docs) : t \in Range(docs[i].tokens)})

\* tf: occurrences per token, keyed in order of first occurrence
RECURSIVE TermFreq(_, _)
TermFreq(tokens, tf) ==
  IF tokens = <<>> THEN tf
  ELSE TermFreq(Tail(tokens), DictSet(tf, tokens[1], DictGet(tf, tokens[1], 0) + 1))

\* Idf without the "+ 1.0" of line 98
IdfUnsmoothed(n, df) == FLogRatio(n + 1, 1 + df)

Idf(n, df) == FLogRatio(n + 1, 1 + df) + Scale

tfidf_vectors(docs) ==
  LET n == Len(docs)
      Vec(doc) ==
        LET tf == TermFreq(doc.tokens, <<>>)
        IN [j \in 1..Len(tf) |-> <<tf[j][1], tf[j][2] * Idf(n, DocFreq(docs, tf[j][1]))>>]
  IN [i \in 1..Len(docs) |-> Vec(docs[i])]

ZeroDivisionError == -2

SquareSum(a) == SumSeq([i \in 1..Len(a) |-> FMul(a[i][2], a[i][2])])

\* cosine without the test of line 112
cosineUnguarded(a, b) ==
  IF a = <<>> \/ b = <<>> THEN 0
  ELSE LET dot == SumSeq([i \in 1..Len(a) |-> FMul(a[i][2], DictGet(b, a[i][1], 0))])
           norm_a == FSqrt(SquareSum(a))
           norm_b == FSqrt(SquareSum(b))
       IN IF FMul(norm_a, norm_b) = 0 THEN ZeroDivisionError
          ELSE FDiv(dot, FMul(norm_a, norm_b))

cosine(a, b) ==
  IF a = <<>> \/ b = <<>> THEN 0
  ELSE LET dot == SumSeq([i \in 1..Len(a) |-> FMul(a[i][2], DictGet(b, a[i][1], 0))])
           norm_a == FSqrt(SquareSum(a))
           norm_b == FSqrt(SquareSum(b))
       IN IF norm_a = 0 \/ norm_b = 0 THEN 0
          ELSE IF FMul(norm_a, norm_b) = 0 THEN ZeroDivisionError
          ELSE FDiv(dot, FMul(norm_a, norm_b))

IndexError == <<"IndexError">>

\* one vector added into agg with weight w
RECURSIVE AddVector(_, _, _)
AddVector(agg, vec, w) ==
  IF vec = <<>> THEN agg
  ELSE AddVector(DictSet(agg, vec[1][1], DictGet(agg, vec[1][1], 0) + FMul(vec[1][2], w)),
                 Tail(vec), w)

RECURSIVE AggregateFrom(_, _, _, _)
AggregateFrom(agg, vectors, weights, i) ==
  IF i > Len(vectors) THEN agg
  ELSE IF weights # <<>> /\ i > Len(weights) THEN IndexError
  ELSE AggregateFrom(AddVector(agg, vectors[i], IF weights = <<>> THEN Scale ELSE weights[i]),
                     vectors, weights, i + 1)

\* aggregate_vector returning the mean of the vectors instead of their sum
aggregateMean(vectors, weights) ==
  LET agg == AggregateFrom(<<>>, vectors, weights, 1)
  IN IF agg = IndexError \/ vectors = <<>> THEN agg
     ELSE [i \in 1..Len(agg) |-> <<agg[i][1], RoundDiv(agg[i][2], Len(vectors))>>]

\* weights = <<>> stands for both None and the empty list
aggregate_vector(vectors, weights) == AggregateFrom(<<>>, vectors, weights, 1)

\* ------------------------------------------------------------------------
\* explain_doc
\* ------------------------------------------------------------------------
\* (contrib, token) tuples: x < y
ContribLess(x, y) == x[1] < y[1] \/ (x[1] = y[1] /\ StrLess(x[2], y[2]))

\* x placed into a list sorted in descending order, after the elements that
\* are not below it
InsertContrib(sorted, x) ==
  LET ahead == Cardinality({i \in 1..Len(sorted) : ~ContribLess(sorted[i], x)})
  IN SubSeq(sorted, 1, ahead) \o <<x>> \o SubSeq(sorted, ahead + 1, Len(sorted))

\* contributions.sort(reverse=True)
RECURSIVE SortContrib(_, _)
SortContrib(list, sorted) ==
  IF list = <<>> THEN sorted
  ELSE SortContrib(Tail(list), InsertContrib(sorted, list[1]))

Contributions(interest_vec, doc_vec) ==
  LET all == [i \in 1..Len(doc_vec) |->
                <<FMul(doc_vec[i][2], DictGet(interest_vec, doc_vec[i][1], 0)), doc_vec[i][1]>>]
      Positive(c) == c[1] > 0
  IN SelectSeq(all, Positive)

\* explain_doc without the test of line 175: contributions[:topn] with a
\* negative topn drops the last -topn elements
explainUnguarded(interest_vec, doc_vec, topn) ==
  LET contributions == SortContrib(Contributions(interest_vec, doc_vec), <<>>)
      kept == IF topn >= 0 THEN Min(topn, Len(contributions))
              ELSE Max(Len(contributions) + topn, 0)
  IN [i \in 1..kept |-> contributions[i][2]]

explain_doc(interest_vec, doc_vec, topn) ==
  IF topn <= 0 THEN <<>>
  ELSE LET contributions == SortContrib(Contributions(interest_vec, doc_vec), <<>>)
       IN [i \in 1..Min(topn, Len(contributions)) |-> contributions[i][2]]

\* ------------------------------------------------------------------------
\* text helpers of main: str.split, str.strip, str.join, substring search
\* ------------------------------------------------------------------------
\* text.split(sep) for a one-character sep; cur is the field being read
RECURSIVE SplitFrom(_, _, _)
SplitFrom(text, sep, cur) ==
  IF text = <<>> THEN <<cur>>
  ELSE IF text[1] = sep THEN <<cur>> \o SplitFrom(Tail(text), sep, <<>>)
  ELSE SplitFrom(Tail(text), sep, Append(cur, text[1]))

Split(text, sep) == SplitFrom(text, sep, <<>>)

RECURSIVE LStrip(_)
LStrip(text) == IF text # <<>> /\ text[1] = " " THEN LStrip(Tail(text)) ELSE text

RECURSIVE RStrip(_)
RStrip(text) ==
  IF text # <<>> /\ text[Len(text)] = " " THEN RStrip(SubSeq(text, 1, Len(text) - 1)) ELSE text

\* str.strip()
Strip(text) == RStrip(LStrip(text))

\* sep.join(parts)
RECURSIVE Join(_, _)
Join(parts, sep) ==
  IF parts = <<>> THEN <<>>
  ELSE IF Len(parts) = 1 THEN parts[1]
  ELSE parts[1] \o sep \o Join(Tail(parts), sep)

\* lit in text
Contains(text, lit) ==
  \E i \in 0..(Len(text) - Len(lit)) : SubSeq(text, i + 1, i + Len(lit)) = lit

NonEmpty(text) == text # <<>>

parse_csv_list(value) ==
  IF value = NoneText \/ value = <<>> THEN <<>>
  ELSE LET parts == Split(value, ",")
       IN SelectSeq([i \in 1..Len(parts) |-> Strip(parts[i])], NonEmpty)

\* ------------------------------------------------------------------------
\* datetime.strptime(text, "%Y-%m-%d")
\* ------------------------------------------------------------------------
RECURSIVE ToNumber(_, _)
ToNumber(digits, acc) ==
  IF digits = <<>> THEN acc
  ELSE ToNumber(Tail(digits), 10 * acc + (IndexOf(Digits, digits[1]) - 1))

AllDigits(text) == text # <<>> /\ \A i \in 1..Len(text) : text[i] \in Range(Digits)

IsLeap(y) == (y % 4 = 0 /\ y % 100 # 0) \/ y % 400 = 0

DaysInMonth(y, m) ==
  IF m = 2 THEN (IF IsLeap(y) THEN 29 ELSE 28)
  ELSE IF m \in {4, 6, 9, 11} THEN 30 ELSE 31

RECURSIVE DaysBeforeMonth(_, _)
DaysBeforeMonth(y, m) ==
  IF m = 1 THEN 0 ELSE DaysBeforeMonth(y, m - 1) + DaysInMonth(y, m - 1)

\* the date y-m-d as days since CHROME_EPOCH (1601-01-01)
DateToDays(y, m, d) ==
  LET yy == y - 1601
  IN CHROME_EPOCH + 365 * yy + (yy \div 4) - (yy \div 100) + (yy \div 400)
       + DaysBeforeMonth(y, m) + (d - 1)

Strptime(text) ==
  LET f == Split(text, "-")
  IN IF Len(f) # 3 THEN ValueError
     ELSE IF ~(AllDigits(f[1]) /\ AllDigits(f[2]) /\ AllDigits(f[3])) THEN ValueError
     ELSE IF Len(f[1]) # 4 \/ Len(f[2]) > 2 \/ Len(f[3]) > 2 THEN ValueError
     ELSE LET y == ToNumber(f[1], 0)
              m == ToNumber(f[2], 0)
              d == ToNumber(f[3], 0)
          IN IF y < 1 \/ m \notin 1..12 \/ d < 1 THEN ValueError
             ELSE IF d > DaysInMonth(y, m) THEN ValueError
             ELSE DateToDays(y, m, d)

\* ------------------------------------------------------------------------
\* re.compile, Pattern.search, is_reading_candidate
\* ------------------------------------------------------------------------
ReError == [pattern |-> <<"re.error">>, alts |-> <<>>]

\* the nesting depth after reading text, -1 once a ")" has no "(" to close
RECURSIVE ParenDepth(_, _)
ParenDepth(text, depth) ==
  IF depth < 0 THEN -1
  ELSE IF text = <<>> THEN depth
  ELSE ParenDepth(Tail(text),
                  IF text[1] = "(" THEN depth + 1
                  ELSE IF text[1] = ")" THEN depth - 1 ELSE depth)

NotParen(c) == c \notin {"(", ")"}

\* re.compile(text, re.IGNORECASE) for patterns made of literals, "|" and
\* grouping parentheses
ReCompile(text) ==
  IF ParenDepth(text, 0) # 0 THEN ReError
  ELSE [pattern |-> text, alts |-> Split(SelectSeq(text, NotParen), "|")]

\* re.compile(r"$^")
NeverMatch == [pattern |-> NeverPattern, alts |-> <<>>]

\* re.compile(f"(?:{a.pattern})|(?:{b.pattern})", re.IGNORECASE)
ReUnion(a, b) ==
  [pattern |-> <<"(","?",":">> \o a.pattern \o <<")","|","(","?",":">> \o b.pattern \o <<")">>,
   alts |-> a.alts \o b.alts]

\* pattern.search(text) is not None
Search(pattern, text) ==
  IF pattern.pattern = NeverPattern THEN text = <<>>
  ELSE \E i \in 1..Len(pattern.alts) : Contains(Lower(text), Lower(pattern.alts[i]))

is_reading_candidate(doc, exclude_hosts, exclude_patterns) ==
  IF Lower(doc.host) \in exclude_hosts THEN FALSE
  ELSE IF Search(exclude_patterns, UrlText(doc.url)) \/ Search(exclude_patterns, doc.title) THEN FALSE
  ELSE TRUE

\* ------------------------------------------------------------------------
\* format_row, build_cluster_summary, printers
\* ------------------------------------------------------------------------
\* f"{score:.3f}", in thousandths
FormatScore(score) == RoundDiv(score * 1000, Scale)

\* the row of one recommendation; last_visit keeps the day instead of its
\* "%Y-%m-%d" text (None for ""), visits the number instead of its digits,
\* and cluster is unset until main labels the row
format_row(score, doc, why_tokens) ==
  [ score |-> FormatScore(score),
    last_visit |-> doc.last_visit,
    visits |-> doc.visit_count,
    title |-> Strip(doc.title),
    url |-> doc.url,
    host |-> doc.host,
    why |-> Join(why_tokens, <<","," ">>),
    why_tokens |-> why_tokens,
    cluster |-> NoneText ]

\* info["tokens"][t] += 1 for every t of tokens
RECURSIVE CountTokens(_, _)
CountTokens(counts, tokens) ==
  IF tokens = <<>> THEN counts
  ELSE CountTokens(DictSet(counts, tokens[1], DictGet(counts, tokens[1], 0) + 1), Tail(tokens))

\* clusters: name -> [count, tokens], keyed in order of first appearance
RECURSIVE CollectClusters(_, _)
CollectClusters(clusters, rows) ==
  IF rows = <<>> THEN clusters
  ELSE LET r == rows[1]
           info == DictGet(clusters, r.cluster, [count |-> 0, tokens |-> <<>>])
       IN CollectClusters(
            DictSet(clusters, r.cluster,
                    [count |-> info.count + 1, tokens |-> CountTokens(info.tokens, r.why_tokens)]),
            Tail(rows))

\* TokenCountBefore for key=lambda x: -x[1]
TokenCountBeforeByCount(x, y) == x[2] > y[2]

\* key=lambda x: (-x[1], x[0]): x sorts before y
TokenCountBefore(x, y) == x[2] > y[2] \/ (x[2] = y[2] /\ StrLess(x[1], y[1]))

InsertTokenCount(sorted, x) ==
  LET ahead == Cardinality({i \in 1..Len(sorted) : ~TokenCountBefore(x, sorted[i])})
  IN SubSeq(sorted, 1, ahead) \o <<x>> \o SubSeq(sorted, ahead + 1, Len(sorted))

RECURSIVE SortTokenCounts(_, _)
SortTokenCounts(list, sorted) ==
  IF list = <<>> THEN sorted
  ELSE SortTokenCounts(Tail(list), InsertTokenCount(sorted, list[1]))

build_cluster_summary(rows, topn) ==
  LET clusters == CollectClusters(<<>>, rows)
      Summary(info) ==
        LET token_counts == SortTokenCounts(info.tokens, <<>>)
        IN [count |-> info.count,
            top_tokens |-> [i \in 1..Min(Max(topn, 0), Len(token_counts)) |-> token_counts[i][1]]]
  IN [i \in 1..Len(clusters) |-> <<clusters[i][1], Summary(clusters[i][2])>>]

NoSummary == [count |-> 0, top_tokens |-> <<>>]

\* the lines print_table writes: a header, and before every row whose
\* cluster differs from the previous row's, that cluster's heading
RECURSIVE TableLines(_, _, _)
TableLines(rows, last_cluster, cluster_summaries) ==
  IF rows = <<>> THEN <<>>
  ELSE LET r == rows[1]
           summary == DictGet(cluster_summaries, r.cluster, NoSummary)
       IN (IF r.cluster # last_cluster
           THEN << <<"cluster", r.cluster, summary.top_tokens, summary.count>> >>
           ELSE <<>>)
          \o << <<"row", r>> >>
          \o TableLines(Tail(rows), r.cluster, cluster_summaries)

print_table(rows, cluster_enabled, cluster_summaries) ==
  << <<"header">> >>
  \o (IF ~cluster_enabled
      THEN [i \in 1..Len(rows) |-> <<"row", rows[i]>>]
      ELSE TableLines(rows, NoneText, cluster_summaries))

print_csv(rows, cluster_summaries) ==
  << <<"header">> >>
  \o [i \in 1..Len(rows) |->
        LET summary == DictGet(cluster_summaries, rows[i].cluster, NoSummary)
        IN <<"row", rows[i], summary.top_tokens, summary.count>>]

\* clusters.setdefault(r["cluster"], []).append(r)
RECURSIVE GroupRows(_, _)
GroupRows(clusters, rows) ==
  IF rows = <<>> THEN clusters
  ELSE GroupRows(DictSet(clusters, rows[1].cluster,
                         Append(DictGet(clusters, rows[1].cluster, <<>>), rows[1])),
                 Tail(rows))

print_json(rows, cluster_enabled, cluster_summaries) ==
  IF ~cluster_enabled
  THEN [i \in 1..Len(rows) |-> <<"row", rows[i]>>]
  ELSE LET clusters == GroupRows(<<>>, rows)
       IN [i \in 1..Len(clusters) |->
             <<"group", clusters[i][1],
               DictGet(cluster_summaries, clusters[i][1],
                       [count |-> Len(clusters[i][2]), top_tokens |-> <<>>]),
               clusters[i][2]>>]

\* ------------------------------------------------------------------------
\* main: state
\* ------------------------------------------------------------------------
VARIABLES
  pc,                \* the next statement group of main, "done" after return
  rows,              \* load_history's result
  args,              \* the parsed command line
  docs,
  exclude_hosts,
  exclude_patterns,
  now,               \* the clock value read at line 383, None before
  recent_docs,
  older_docs,
  vectors,
  interest,
  scored,
  results,
  cluster_summaries,
  stdout,            \* everything printed so far
  rc,                \* main's return value, None while running
  calls,             \* the steps of main taken and the functions it called, in order
  fcall,             \* a direct call of one function: its name and arguments
  fret               \* <<the value that call returned>>, NotReturned before

vars == <<pc, rows, args, docs, exclude_hosts, exclude_patterns, now, recent_docs,
          older_docs, vectors, interest, scored, results, cluster_summaries,
          stdout, rc, calls, fcall, fret>>

mainVars == <<pc, rows, args, docs, exclude_hosts, exclude_patterns, now, recent_docs,
              older_docs, vectors, interest, scored, results, cluster_summaries,
              stdout, rc, calls>>

fnVars == <<fcall, fret>>

MsgNoRows == "No history rows found."

MsgBadSince == "Invalid --since format. Use YYYY-MM-DD."

MsgBadPattern == "Invalid --exclude-url-pattern regex."

MsgNoDocs == "No history rows after filtering."

\* MsgNoRecent with the message of line 380 pasted at line 390
MsgNoRecentPasted == "No history rows after filtering."

MsgNoRecent == "Not enough recent history to build an interest profile."

MsgNoResults == "No recommendations found."

\* print(msg); return 1
Fail(msg) ==
  /\ stdout' = Append(stdout, <<"message", msg>>)
  /\ rc' = 1
  /\ pc' = "done"

\* ------------------------------------------------------------------------
\* main, lines 335-341: load_history, build_docs, --min-visits
\* ------------------------------------------------------------------------
EnoughVisits(d) == d.visit_count >= args.min_visits

LoadHistory ==
  /\ pc = "load"
  /\ UNCHANGED fnVars
  /\ IF rows = <<>>
     THEN /\ Fail(MsgNoRows)
          /\ calls' = Append(calls, "load_history")
          /\ UNCHANGED docs
     ELSE IF BuildRaises(rows)
     THEN /\ stdout' = Append(stdout, <<"traceback", "ValueError">>)
          /\ rc' = 1
          /\ pc' = "done"
          /\ calls' = calls \o <<"load_history", "build_docs">>
          /\ UNCHANGED docs
     ELSE /\ docs' = SelectSeq(build_docs(rows), EnoughVisits)
          /\ calls' = calls \o <<"load_history", "build_docs">>
          /\ pc' = "since"
          /\ UNCHANGED <<stdout, rc>>
  /\ UNCHANGED <<rows, args, exclude_hosts, exclude_patterns, now, recent_docs, older_docs,
                 vectors, interest, scored, results, cluster_summaries>>

\* ------------------------------------------------------------------------
\* main, lines 342-351: --since
\* ------------------------------------------------------------------------
SinceGiven == args.since # NoneText /\ args.since # <<>>

SinceFilter ==
  /\ pc = "since"
  /\ UNCHANGED fnVars
  /\ calls' = Append(calls, "since")
  /\ IF ~SinceGiven
     THEN /\ pc' = "exclude"
          /\ UNCHANGED <<docs, stdout, rc>>
     ELSE LET since_utc == Strptime(args.since)
              OnOrAfter(d) == d.last_visit # None /\ d.last_visit >= since_utc
          IN IF since_utc = ValueError
             THEN /\ Fail(MsgBadSince)
                  /\ UNCHANGED docs
             ELSE /\ docs' = SelectSeq(docs, OnOrAfter)
                  /\ pc' = "exclude"
                  /\ UNCHANGED <<stdout, rc>>
  /\ UNCHANGED <<rows, args, exclude_hosts, exclude_patterns, now, recent_docs, older_docs,
                 vectors, interest, scored, results, cluster_summaries>>

\* ------------------------------------------------------------------------
\* main, lines 353-376: exclusion hosts and pattern
\* ------------------------------------------------------------------------
PatternGiven == args.exclude_url_pattern # NoneText /\ args.exclude_url_pattern # <<>>

ExcludeSetup ==
  /\ pc = "exclude"
  /\ UNCHANGED fnVars
  /\ calls' = Append(calls, "exclude")
  /\ LET base_hosts == IF ~args.no_reading_filter THEN DEFAULT_EXCLUDE_HOSTS ELSE {}
         base_pattern == IF ~args.no_reading_filter THEN DEFAULT_EXCLUDE_PATTERNS ELSE NeverMatch
         extra_hosts == parse_csv_list(args.exclude_hosts)
         user_pattern == ReCompile(args.exclude_url_pattern)
     IN /\ exclude_hosts' = base_hosts \cup {Lower(extra_hosts[i]) : i \in 1..Len(extra_hosts)}
        /\ IF ~PatternGiven
           THEN /\ exclude_patterns' = base_pattern
                /\ pc' = "filter"
                /\ UNCHANGED <<stdout, rc>>
           ELSE IF user_pattern = ReError
           THEN /\ exclude_patterns' = base_pattern
                /\ Fail(MsgBadPattern)
           ELSE /\ exclude_patterns' = IF base_pattern.pattern = NeverPattern
                                       THEN user_pattern
                                       ELSE ReUnion(base_pattern, user_pattern)
                /\ pc' = "filter"
                /\ UNCHANGED <<stdout, rc>>
  /\ UNCHANGED <<rows, args, docs, now, recent_docs, older_docs, vectors, interest, scored,
                 results, cluster_summaries>>

\* ------------------------------------------------------------------------
\* main, lines 378-381: reading filter
\* ------------------------------------------------------------------------
ReadingCandidate(d) == is_reading_candidate(d, exclude_hosts, exclude_patterns)

ReadingFilter ==
  /\ pc = "filter"
  /\ UNCHANGED fnVars
  /\ calls' = Append(calls, "is_reading_candidate")
  /\ docs' = SelectSeq(docs, ReadingCandidate)
  /\ IF docs' = <<>>
     THEN Fail(MsgNoDocs)
     ELSE /\ pc' = "split"
          /\ UNCHANGED <<stdout, rc>>
  /\ UNCHANGED <<rows, args, exclude_hosts, exclude_patterns, now, recent_docs, older_docs,
                 vectors, interest, scored, results, cluster_summaries>>

\* ------------------------------------------------------------------------
\* main, lines 383-391: the recent / older split
\* ------------------------------------------------------------------------
\* the values datetime.now() can return during a run
Clock == {DateToDays(2024, 1, 11), DateToDays(2024, 2, 20)}

IsRecent(d, cutoff) == d.last_visit # None /\ d.last_visit >= cutoff

\* IsOlder without the test of a missing last_visit
IsOlderDated(d, cutoff) == d.last_visit # None /\ d.last_visit < cutoff

IsOlder(d, cutoff) == d.last_visit = None \/ d.last_visit < cutoff

SplitRecent ==
  /\ pc = "split"
  /\ UNCHANGED fnVars
  /\ calls' = Append(calls, "split")
  /\ \E t \in Clock :
       LET cutoff == t - args.recent_days
           Recent(d) == IsRecent(d, cutoff)
           Older(d) == IsOlder(d, cutoff)
       IN /\ now' = t
          /\ recent_docs' = SelectSeq(docs, Recent)
          /\ older_docs' = SelectSeq(docs, Older)
  /\ IF recent_docs' = <<>>
     THEN Fail(MsgNoRecent)
     ELSE /\ pc' = "vectorize"
          /\ UNCHANGED <<stdout, rc>>
  /\ UNCHANGED <<rows, args, docs, exclude_hosts, exclude_patterns, vectors, interest, scored,
                 results, cluster_summaries>>

\* ------------------------------------------------------------------------
\* main, lines 393-397: vectors and the interest vector
\* ------------------------------------------------------------------------
\* doc_index[id]: the position of the last document with that id
DocIndex(ds, id) == CHOOSE i \in 1..Len(ds) : ds[i].id = id /\ \A j \in (i + 1)..Len(ds) : ds[j].id # id

VectorOf(d) == vectors[DocIndex(docs, d.id)]

Vectorize ==
  /\ pc = "vectorize"
  /\ UNCHANGED fnVars
  /\ vectors' = tfidf_vectors(docs)
  /\ calls' = Append(calls, "tfidf_vectors")
  /\ pc' = "aggregate"
  /\ UNCHANGED <<rows, args, docs, exclude_hosts, exclude_patterns, now, recent_docs,
                 older_docs, interest, scored, results, cluster_summaries, stdout, rc>>

Aggregate ==
  /\ pc = "aggregate"
  /\ UNCHANGED fnVars
  /\ interest' = aggregate_vector([i \in 1..Len(recent_docs) |-> VectorOf(recent_docs[i])], <<>>)
  /\ calls' = Append(calls, "aggregate_vector")
  /\ pc' = "score"
  /\ UNCHANGED <<rows, args, docs, exclude_hosts, exclude_patterns, now, recent_docs,
                 older_docs, vectors, scored, results, cluster_summaries, stdout, rc>>

\* ------------------------------------------------------------------------
\* main, lines 399-407: scoring and ranking
\* ------------------------------------------------------------------------
\* the (score, doc) tuples of the loop at lines 400-405, before the test
\* of line 403
AllScores(older, interest_vec) ==
  [i \in 1..Len(older) |-> <<cosine(interest_vec, VectorOf(older[i])), older[i]>>]

\* PositiveScore for "if score < 0.0: continue"
NonNegativeScore(sd) == ~(sd[1] < 0)

PositiveScore(sd) == ~(sd[1] <= 0)

Score ==
  /\ pc = "score"
  /\ UNCHANGED fnVars
  /\ LET all == AllScores(older_docs, interest)
     IN IF \E i \in 1..Len(all) : all[i][1] = ZeroDivisionError
        THEN /\ stdout' = Append(stdout, <<"traceback", "ZeroDivisionError">>)
             /\ rc' = 1
             /\ pc' = "done"
             /\ UNCHANGED scored
        ELSE /\ scored' = SelectSeq(all, PositiveScore)
             /\ pc' = "sort"
             /\ UNCHANGED <<stdout, rc>>
  /\ calls' = Append(calls, "cosine")
  /\ UNCHANGED <<rows, args, docs, exclude_hosts, exclude_patterns, now, recent_docs,
                 older_docs, vectors, interest, results, cluster_summaries>>

\* InsertScored for a sort that puts a later element before its equals
InsertScoredBeforeEquals(sorted, x) ==
  LET ahead == Cardinality({i \in 1..Len(sorted) : sorted[i][1] > x[1]})
  IN SubSeq(sorted, 1, ahead) \o <<x>> \o SubSeq(sorted, ahead + 1, Len(sorted))

\* x placed into a list sorted by descending score, after the elements whose
\* score is not below x's: list.sort is stable, also with reverse=True
InsertScored(sorted, x) ==
  LET ahead == Cardinality({i \in 1..Len(sorted) : sorted[i][1] >= x[1]})
  IN SubSeq(sorted, 1, ahead) \o <<x>> \o SubSeq(sorted, ahead + 1, Len(sorted))

\* scored.sort(key=lambda x: x[0], reverse=True)
RECURSIVE SortScored(_, _)
SortScored(list, sorted) ==
  IF list = <<>> THEN sorted
  ELSE SortScored(Tail(list), InsertScored(sorted, list[1]))

Sort ==
  /\ pc = "sort"
  /\ UNCHANGED fnVars
  /\ calls' = Append(calls, "sort")
  /\ scored' = SortScored(scored, <<>>)
  /\ pc' = "results"
  /\ UNCHANGED <<rows, args, docs, exclude_hosts, exclude_patterns, now, recent_docs,
                 older_docs, vectors, interest, results, cluster_summaries, stdout, rc>>

\* ------------------------------------------------------------------------
\* main, lines 409-423: --dedupe-host, explanations, --limit
\* ------------------------------------------------------------------------
\* CollectResults without the test of seen_hosts of line 412
RECURSIVE CollectResultsAnyHost(_, _, _)
CollectResultsAnyHost(rest, res, seen_hosts) ==
  IF rest = <<>> THEN res
  ELSE LET why_tokens == explain_doc(interest, VectorOf(rest[1][2]), args.explain_top)
           res2 == Append(res, format_row(rest[1][1], rest[1][2], why_tokens))
       IN IF Len(res2) >= args.limit
          THEN res2
          ELSE CollectResultsAnyHost(Tail(rest), res2, seen_hosts)

RECURSIVE CollectResults(_, _, _)
CollectResults(rest, res, seen_hosts) ==
  IF rest = <<>> THEN res
  ELSE LET score == rest[1][1]
           doc == rest[1][2]
       IN IF args.dedupe_host /\ doc.host \in seen_hosts
          THEN CollectResults(Tail(rest), res, seen_hosts)
          ELSE LET why_tokens == explain_doc(interest, VectorOf(doc), args.explain_top)
                   res2 == Append(res, format_row(score, doc, why_tokens))
               IN IF Len(res2) >= args.limit
                  THEN res2
                  ELSE CollectResults(Tail(rest), res2, seen_hosts \cup {doc.host})

\* BuildResults without the test of line 421
BuildResultsUnchecked ==
  /\ pc = "results"
  /\ UNCHANGED fnVars
  /\ results' = CollectResults(scored, <<>>, {})
  /\ calls' = Append(calls, "explain_doc")
  /\ pc' = "cluster"
  /\ UNCHANGED <<stdout, rc>>
  /\ UNCHANGED <<rows, args, docs, exclude_hosts, exclude_patterns, now, recent_docs,
                 older_docs, vectors, interest, scored, cluster_summaries>>

BuildResults ==
  /\ pc = "results"
  /\ UNCHANGED fnVars
  /\ results' = CollectResults(scored, <<>>, {})
  /\ calls' = Append(calls, "explain_doc")
  /\ IF results' = <<>>
     THEN Fail(MsgNoResults)
     ELSE /\ pc' = "cluster"
          /\ UNCHANGED <<stdout, rc>>
  /\ UNCHANGED <<rows, args, docs, exclude_hosts, exclude_patterns, now, recent_docs,
                 older_docs, vectors, interest, scored, cluster_summaries>>

\* ------------------------------------------------------------------------
\* main, lines 425-429: cluster labels and summaries
\* ------------------------------------------------------------------------
ClusterTopN == 5

\* ClusterLabel with r["why_tokens"][-1]
ClusterLabelLast(r, cluster_enabled) ==
  IF cluster_enabled /\ r.why_tokens # <<>> THEN r.why_tokens[Len(r.why_tokens)]
  ELSE IF r.host # <<>> THEN r.host
  ELSE <<"o","t","h","e","r">>

ClusterLabel(r, cluster_enabled) ==
  IF cluster_enabled /\ r.why_tokens # <<>> THEN r.why_tokens[1]
  ELSE IF r.host # <<>> THEN r.host
  ELSE <<"o","t","h","e","r">>

Cluster ==
  /\ pc = "cluster"
  /\ UNCHANGED fnVars
  /\ calls' = Append(calls, "cluster")
  /\ LET cluster_enabled == ~args.no_cluster
     IN /\ results' = [i \in 1..Len(results) |->
                         [results[i] EXCEPT !.cluster = ClusterLabel(results[i], cluster_enabled)]]
        /\ cluster_summaries' = IF cluster_enabled
                                THEN build_cluster_summary(results', ClusterTopN)
                                ELSE <<>>
  /\ pc' = "present"
  /\ UNCHANGED <<rows, args, docs, exclude_hosts, exclude_patterns, now, recent_docs,
                 older_docs, vectors, interest, scored, stdout, rc>>

\* ------------------------------------------------------------------------
\* main, lines 431-437: output
\* ------------------------------------------------------------------------
Present ==
  /\ pc = "present"
  /\ UNCHANGED fnVars
  /\ calls' = Append(calls, "print")
  /\ LET cluster_enabled == ~args.no_cluster
     IN stdout' = stdout \o
          (IF args.format = "table" THEN print_table(results, cluster_enabled, cluster_summaries)
           ELSE IF args.format = "csv" THEN print_csv(results, cluster_summaries)
           ELSE print_json(results, cluster_enabled, cluster_summaries))
  /\ rc' = 0
  /\ pc' = "done"
  /\ UNCHANGED <<rows, args, docs, exclude_hosts, exclude_patterns, now, recent_docs,
                 older_docs, vectors, interest, scored, results, cluster_summaries>>

Next ==
  \/ LoadHistory
  \/ SinceFilter
  \/ ExcludeSetup
  \/ ReadingFilter
  \/ SplitRecent
  \/ Vectorize
  \/ Aggregate
  \/ Score
  \/ Sort
  \/ BuildResults
  \/ Cluster
  \/ Present

\* ------------------------------------------------------------------------
\* Direct calls of cosine and explain_doc
\* ------------------------------------------------------------------------
NoCall == [fn |-> "none"]

NotReturned == <<>>

CallCosine ==
  /\ fcall.fn = "cosine"
  /\ fret = NotReturned
  /\ fret' = <<cosine(fcall.a, fcall.b)>>
  /\ UNCHANGED fcall
  /\ UNCHANGED mainVars

CallExplain ==
  /\ fcall.fn = "explain_doc"
  /\ fret = NotReturned
  /\ fret' = <<explain_doc(fcall.interest_vec, fcall.doc_vec, fcall.topn)>>
  /\ UNCHANGED fcall
  /\ UNCHANGED mainVars

CallAggregate ==
  /\ fcall.fn = "aggregate_vector"
  /\ fret = NotReturned
  /\ fret' = <<aggregate_vector(fcall.vectors, fcall.weights)>>
  /\ UNCHANGED fcall
  /\ UNCHANGED mainVars

CallTokenize ==
  /\ fcall.fn = "tokenize"
  /\ fret = NotReturned
  /\ fret' = <<tokenize(fcall.text)>>
  /\ UNCHANGED fcall
  /\ UNCHANGED mainVars

NextVec == CallCosine \/ CallExplain \/ CallAggregate \/ CallTokenize

\* ------------------------------------------------------------------------
\* Inputs
\* ------------------------------------------------------------------------
Jan10 == DateToDays(2024, 1, 10)

Dec02 == DateToDays(2023, 12, 2)

\* rows of the urls table without their id: url, title, visit_count,
\* last_visit_time (in days)
RowRustGuide ==
  <<[netloc |-> <<"a",".","i","o">>, path |-> <<"/">>], <<"R","u","s","t"," ","m","e","m","o","r","y"," ","s","a","f","e","t","y"," ","g","u","i","d","e">>, 5, Jan10>>

RowRustOwnership ==
  <<[netloc |-> <<"b",".","i","o">>, path |-> <<"/">>], <<"R","u","s","t"," ","o","w","n","e","r","s","h","i","p"," ","a","n","d"," ","b","o","r","r","o","w","i","n","g">>, 2, Dec02>>

RowMemorySafety ==
  <<[netloc |-> <<"A",".","i","o">>, path |-> <<"/","x">>], <<"M","e","m","o","r","y"," ","S","a","f","e","t","y">>, 1, Jan10>>

RowSafetyOfMemory ==
  <<[netloc |-> <<"c",".","i","o">>, path |-> <<"/">>], <<" ","S","a","f","e","t","y"," ","o","f"," ","m","e","m","o","r","y">>, 1, Dec02>>

RowMemorySafetyOld ==
  <<[netloc |-> <<"a",".","i","o">>, path |-> <<"/","y">>], <<"m","e","m","o","r","y"," ","s","a","f","e","t","y">>, 2, Dec02>>

RowNoTokens ==
  <<[netloc |-> <<"t",".","c","o">>, path |-> <<"/">>], <<"G","o"," ","t","o"," ","i","t">>, None, Jan10>>

RowLogin ==
  <<[netloc |-> <<"g","i","t","h","u","b",".","c","o","m">>, path |-> <<"/","l","o","g","i","n">>], <<"S","i","g","n"," ","i","n"," ","t","o"," ","G","i","t","H","u","b">>, 3, Dec02>>

\* a visited page without a token: "Go" is too short, "to" and "it" are
\* stop words
RowStopwords ==
  <<[netloc |-> <<"t",".","c","o">>, path |-> <<"/","i","t">>], <<"G","o"," ","t","o"," ","i","t">>, 1, Jan10>>

\* a url that urlparse does not accept: "http://[::1/rust"
RowBadUrl ==
  <<[netloc |-> <<"[",":",":","1">>, path |-> <<"/","r","u","s","t">>], <<"R","u","s","t">>, 1, Dec02>>

RowUndated ==
  <<[netloc |-> <<"b",".","i","o">>, path |-> <<"/","r","u","s","t","/","g","u","i","d","e">>], <<"R","u","s","t">>, 2, None>>

\* the tables load_history can return from a catalogue of rows: up to
\* MaxRows distinct rows in any order, the id being the row's position
RowTables(catalogue) ==
  UNION { { [i \in 1..n |-> <<i>> \o f[i]] :
              f \in { g \in [1..n -> catalogue] : \A i, j \in 1..n : i # j => g[i] # g[j] } } :
          n \in 0..MaxRows }

FilterRows ==
  { RowRustGuide, RowRustOwnership, RowNoTokens, RowLogin, RowUndated, RowStopwords,
    RowBadUrl }

RankRows ==
  { RowRustGuide, RowRustOwnership, RowMemorySafety, RowSafetyOfMemory,
    RowMemorySafetyOld, RowNoTokens, RowUndated }

DefaultArgs ==
  [ limit |-> 15, recent_days |-> 14, min_visits |-> 1, dedupe_host |-> FALSE,
    since |-> NoneText, no_reading_filter |-> FALSE, exclude_hosts |-> NoneText,
    exclude_url_pattern |-> NoneText, format |-> "table", explain_top |-> 5,
    no_cluster |-> FALSE ]

\* command lines that vary the filters
FilterArgs ==
  { [DefaultArgs EXCEPT !.since = s, !.exclude_url_pattern = p, !.no_reading_filter = f,
                        !.min_visits = m, !.exclude_hosts = h] :
      s \in {NoneText, <<>>, <<"2","0","2","4","-","0","1","-","0","5">>, <<"2","0","2","4","-","0","2","-","3","0">>, <<"l","a","s","t"," ","w","e","e","k">>},
      p \in {NoneText, <<"g","u","i","d","e","|","o","w","n">>, <<"(","r","u","s","t">>},
      f \in BOOLEAN,
      m \in {1, 2},
      h \in {NoneText, <<" ","C",".","i","o"," ",",">>} }

\* command lines that vary the ranking, the explanations, or the output
RankArgs ==
  { [DefaultArgs EXCEPT !.limit = l, !.dedupe_host = d] : l \in {0, 1, 2, 15}, d \in BOOLEAN }
  \cup
  { [DefaultArgs EXCEPT !.explain_top = e, !.no_cluster = c] : e \in {0, 1, 5}, c \in BOOLEAN }
  \cup
  { [DefaultArgs EXCEPT !.format = o, !.no_cluster = c] :
      o \in {"table", "csv", "json"}, c \in BOOLEAN }

InitWith(tables, arguments) ==
  /\ pc = "load"
  /\ rows \in tables
  /\ args \in arguments
  /\ docs = <<>>
  /\ exclude_hosts = {}
  /\ exclude_patterns = NeverMatch
  /\ now = None
  /\ recent_docs = <<>>
  /\ older_docs = <<>>
  /\ vectors = <<>>
  /\ interest = <<>>
  /\ scored = <<>>
  /\ results = <<>>
  /\ cluster_summaries = <<>>
  /\ stdout = <<>>
  /\ rc = None
  /\ calls = <<>>
  /\ fcall = NoCall
  /\ fret = NotReturned

Init == InitWith(RowTables(FilterRows), FilterArgs)

Spec == Init /\ [][Next]_vars

InitRank == InitWith(RowTables(RankRows), RankArgs)

SpecRank == InitRank /\ [][Next]_vars

\* vectors for the direct calls: up to MaxVecLen distinct tokens in any
\* insertion order, each with a weight of Weights, and the vectors of
\* UnderflowVecs, whose weights are too small for their squares to be
\* representable
VecTokens == {<<"m","e","m","o","r","y">>, <<"r","u","s","t">>, <<"s","a","f","e","t","y">>}

Weights == {0, Scale, 2 * Scale}

Vecs ==
  UNION { { v \in [1..n -> VecTokens \X Weights] : \A i, j \in 1..n : i # j => v[i][1] # v[j][1] } :
          n \in 0..MaxVecLen }

UnderflowVecs == { << <<<<"r","u","s","t">>, 1>> >>, << <<<<"r","u","s","t">>, 1>>, <<<<"m","e","m","o","r","y">>, 1>> >> }

TopNs == {-1, 0, 1, 2, 3}

\* direct calls of aggregate_vector: up to MaxVecLen vectors, and no
\* weights (None or []), too few, as many or more weights than vectors
AggregateCalls ==
  LET vecs == { <<>>, << <<<<"r","u","s","t">>, Scale>> >>, << <<<<"r","u","s","t">>, Scale>>, <<<<"s","a","f","e","t","y">>, 2 * Scale>> >>,
                << <<<<"s","a","f","e","t","y">>, 3 * Scale>>, <<<<"m","e","m","o","r","y">>, Scale>> >>, << <<<<"m","e","m","o","r","y">>, 0>> >> }
      ws == {0, Scale \div 2, 2 * Scale}
  IN { [fn |-> "aggregate_vector", vectors |-> v, weights |-> w] :
         v \in UNION { [1..k -> vecs] : k \in 0..MaxVecLen },
         w \in UNION { [1..k -> ws] : k \in 0..(MaxVecLen + 1) } }

\* direct calls of tokenize: None, every text of up to MaxTextLen characters
\* over a small alphabet, and some longer titles, hosts and paths
TokenizeCalls ==
  LET alphabet == {"t", "h", "e", "T", "1", " "}
      texts == UNION { [1..n -> alphabet] : n \in 0..MaxTextLen }
      longer == { <<"T","h","e"," ","Q","u","i","c","k"," ","F","o","x"," ","r","u","n","s","!">>, <<"R","u","s","t"," ","a","n","d"," ","t","h","e"," ","r","u","s","t","-","l","a","n","g"," ","1",".","7","5"," ","o","f"," ","I","T">>,
                  <<"w","w","w",".","E","x","a","m","p","l","e",".","c","o","m">>, <<" ","d","o","c","s"," ","r","u","s","t"," ","2","0","2","4"," ","T","h","e","_","B","o","o","k"," ","i","n","d","e","x",".","h","t","m","l">>,
                  <<"i","t","s"," ","T","H","E","I","R"," ","w","e","b","3">>, <<"a","b","c">> }
  IN { [fn |-> "tokenize", text |-> t] : t \in {NoneText} \cup texts \cup longer }

InitVec ==
  /\ pc = "done"
  /\ rows = <<>>
  /\ args = DefaultArgs
  /\ docs = <<>>
  /\ exclude_hosts = {}
  /\ exclude_patterns = NeverMatch
  /\ now = None
  /\ recent_docs = <<>>
  /\ older_docs = <<>>
  /\ vectors = <<>>
  /\ interest = <<>>
  /\ scored = <<>>
  /\ results = <<>>
  /\ cluster_summaries = <<>>
  /\ stdout = <<>>
  /\ rc = None
  /\ calls = <<>>
  /\ fret = NotReturned
  /\ \/ \E a, b \in Vecs \cup UnderflowVecs : fcall = [fn |-> "cosine", a |-> a, b |-> b]
     \/ \E a, b \in Vecs, n \in TopNs :
          fcall = [fn |-> "explain_doc", interest_vec |-> a, doc_vec |-> b, topn |-> n]
     \/ fcall \in AggregateCalls
     \/ fcall \in TokenizeCalls

SpecVec == InitVec /\ [][NextVec]_vars

\* ------------------------------------------------------------------------
\* Inputs of the runs that label and print clusters
\* ------------------------------------------------------------------------
RowSafetyOwnership ==
  <<[netloc |-> <<"d",".","i","o">>, path |-> <<"/">>], <<"S","a","f","e","t","y"," ","a","n","d"," ","o","w","n","e","r","s","h","i","p">>, 1, Dec02>>

\* a url without a host: "http:///safety"
RowNoHost ==
  <<[netloc |-> <<>>, path |-> <<"/","s","a","f","e","t","y">>], <<"R","u","s","t"," ","s","a","f","e","t","y">>, 1, Dec02>>

ClusterRows ==
  {RowRustOwnership, RowUndated, RowSafetyOwnership, RowNoHost, RowMemorySafetyOld}

\* the recent page "Rust memory safety guide" followed by up to MaxRows
\* pages that are not recent
ClusterTables ==
  { [i \in 1..(Len(t) + 1) |->
       IF i = 1 THEN <<1>> \o RowRustGuide ELSE <<i>> \o Tail(t[i - 1])] :
    t \in RowTables(ClusterRows) }

\* command lines that vary the labelling and the output
ClusterArgs ==
  { [DefaultArgs EXCEPT !.no_cluster = c, !.format = o, !.explain_top = e] :
      c \in BOOLEAN, o \in {"table", "csv", "json"}, e \in {0, 1, 5} }

\* direct calls of build_cluster_summary: up to MaxRows labelled rows, of
\* which the function reads the label and the explanation tokens
SummaryCalls ==
  LET SummaryRows ==
        [ cluster : {<<"r","u","s","t">>, <<"b",".","i","o">>},
          why_tokens : { <<>>, <<<<"r","u","s","t">>>>, <<<<"s","a","f","e","t","y">>, <<"r","u","s","t">>>>,
                         <<<<"s","a","f","e","t","y">>, <<"m","e","m","o","r","y">>, <<"g","u","i","d","e">>>> } ]
  IN { [fn |-> "build_cluster_summary", rows |-> r, topn |-> n] :
         r \in UNION { [1..k -> SummaryRows] : k \in 0..MaxRows }, n \in {0, 1, 2, 5} }

CallSummary ==
  /\ fcall.fn = "build_cluster_summary"
  /\ fret = NotReturned
  /\ fret' = <<build_cluster_summary(fcall.rows, fcall.topn)>>
  /\ UNCHANGED fcall
  /\ UNCHANGED mainVars

\* a run of main, or one direct call
InitCluster ==
  \/ InitWith(ClusterTables, ClusterArgs)
  \/ /\ pc = "done"
     /\ rows = <<>>
     /\ args = DefaultArgs
     /\ docs = <<>>
     /\ exclude_hosts = {}
     /\ exclude_patterns = NeverMatch
     /\ now = None
     /\ recent_docs = <<>>
     /\ older_docs = <<>>
     /\ vectors = <<>>
     /\ interest = <<>>
     /\ scored = <<>>
     /\ results = <<>>
     /\ cluster_summaries = <<>>
     /\ stdout = <<>>
     /\ rc = None
     /\ calls = <<>>
     /\ fret = NotReturned
     /\ fcall \in SummaryCalls

NextCluster == Next \/ CallSummary

SpecCluster == InitCluster /\ [][NextCluster]_vars

\* ------------------------------------------------------------------------
\* Properties of a run of main
\* ------------------------------------------------------------------------
Done == pc = "done"

Took(step) == step \in Range(calls)

OnlyMessage(msg) == stdout = << <<"message", msg>> >>

\* C1: a run whose documents are all filtered away, or none of whose
\* documents lies in the recency window, returns 1 after printing one
\* message and nothing else (no traceback, no rows, no return of 0), and the
\* message tells the cause: "No history rows found." is printed exactly
\* when the history is empty, "No history rows after filtering." exactly
\* when the filters leave no document, "Not enough recent history ..."
\* exactly when the split leaves no recent document, and "No
\* recommendations found." exactly when the result list is empty.
C1_InsufficientData ==
  Done =>
    /\ (Took("is_reading_candidate") /\ docs = <<>>) => (rc = 1 /\ OnlyMessage(MsgNoDocs))
    /\ (Took("split") /\ recent_docs = <<>>) => (rc = 1 /\ OnlyMessage(MsgNoRecent))
    /\ OnlyMessage(MsgNoRows) <=> rows = <<>>
    /\ OnlyMessage(MsgNoDocs) <=> (Took("is_reading_candidate") /\ docs = <<>>)
    /\ OnlyMessage(MsgNoRecent) <=> (Took("split") /\ recent_docs = <<>>)
    /\ OnlyMessage(MsgNoResults) <=> (Took("explain_doc") /\ results = <<>>)

\* a run that ended because the recency window held no document although
\* documents survived the filters
C1_Witness ==
  /\ Done
  /\ Took("split")
  /\ docs # <<>>
  /\ recent_docs = <<>>

\* the rows a printer wrote, in the order written
RECURSIVE EmittedRows(_)
EmittedRows(out) ==
  IF out = <<>> THEN <<>>
  ELSE (IF out[1][1] = "row" THEN <<out[1][2]>>
        ELSE IF out[1][1] = "group" THEN out[1][4]
        ELSE <<>>)
       \o EmittedRows(Tail(out))

Occurrences(s, x) == Cardinality({i \in 1..Len(s) : s[i] = x})

SameBag(s, t) ==
  /\ Len(s) = Len(t)
  /\ \A i \in 1..Len(s) : Occurrences(s, s[i]) = Occurrences(t, s[i])

Messages(out) == {i \in 1..Len(out) : out[i][1] \in {"message", "traceback"}}

\* C2: a run of main takes no step twice, and it ends either with 0 after
\* writing the whole, non-empty result list and no message, or with 1
\* after printing exactly one message and no row.
C2_OneOutcome ==
  /\ \A i, j \in 1..Len(calls) : i # j => calls[i] # calls[j]
  /\ Done =>
       \/ /\ rc = 0
          /\ results # <<>>
          /\ Messages(stdout) = {}
          /\ SameBag(EmittedRows(stdout), results)
       \/ /\ rc = 1
          /\ Len(stdout) = 1
          /\ stdout[1][1] = "message"
          /\ EmittedRows(stdout) = <<>>

\* the --since values and patterns of the inputs that are malformed
MalformedSince == {<<"2","0","2","4","-","0","2","-","3","0">>, <<"l","a","s","t"," ","w","e","e","k">>}

MalformedPattern == {<<"(","r","u","s","t">>}

InvalidParameter == {MsgBadSince, MsgBadPattern}

\* C3: a run given a malformed --since or a malformed
\* --exclude-url-pattern ends with an InvalidParameter message, without
\* tfidf_vectors having been called.
C3_Claimed ==
  (Done /\ (args.since \in MalformedSince \/ args.exclude_url_pattern \in MalformedPattern)) =>
    /\ rc = 1
    /\ \E m \in InvalidParameter : OnlyMessage(m)
    /\ ~Took("tfidf_vectors")
\* ------------------------------------------------------------------------
\* Properties of the ranking
\* ------------------------------------------------------------------------
ScoreOf(d) == cosine(interest, VectorOf(d))

\* C4: once sorted, the ranked sequence holds each older document whose
\* cosine score against the interest vector is above 0 exactly once, with
\* that score, holds nothing else, and its scores never increase from one
\* element to the next.
C4_PositiveDescending ==
  Took("sort") =>
    /\ \A i \in 1..Len(scored) :
         /\ scored[i][2] \in Range(older_docs)
         /\ scored[i][1] = ScoreOf(scored[i][2])
         /\ scored[i][1] > 0
    /\ \A d \in Range(older_docs) :
         ScoreOf(d) > 0 => Cardinality({i \in 1..Len(scored) : scored[i][2] = d}) = 1
    /\ \A i, j \in 1..Len(scored) : (i # j) => scored[i][2] # scored[j][2]
    /\ \A i \in 1..(Len(scored) - 1) : scored[i][1] >= scored[i + 1][1]

\* a sorted ranking of two documents, the one with the higher score being
\* the later one in the history
C4_Witness ==
  /\ Took("sort")
  /\ Len(scored) = 2
  /\ scored[1][1] > scored[2][1]
  /\ scored[1][2].id > scored[2][2].id

\* C5: once sorted, two candidates with the same score stand in the order
\* of their rows in the history (the id is the row's position).
C5_StableTies ==
  Took("sort") =>
    \A i, j \in 1..Len(scored) :
      (i < j /\ scored[i][1] = scored[j][1]) => scored[i][2].id < scored[j][2].id

\* a sorted ranking with two candidates of the same score
C5_Witness ==
  /\ Took("sort")
  /\ \E i, j \in 1..Len(scored) : i < j /\ scored[i][1] = scored[j][1]

\* C6 as claimed: the score of every older document against the interest
\* vector lies in [0, 1].
C6_Claimed ==
  Took("cosine") =>
    /\ \A d \in Range(older_docs) : 0 <= ScoreOf(d) /\ ScoreOf(d) <= Scale
    /\ \A i \in 1..Len(scored) : 0 <= scored[i][1] /\ scored[i][1] <= Scale

\* the tokens a document shares with the recent documents
RecentTokens == UNION {Range(recent_docs[i].tokens) : i \in 1..Len(recent_docs)}

Shared(d) == Range(d.tokens) \cap RecentTokens

\* an explanation of d: non-empty, of shared tokens only, and of all of
\* them when they are at most topn
ExplainsShared(why, d, topn) ==
  /\ why # <<>>
  /\ Range(why) \subseteq Shared(d)
  /\ Cardinality(Shared(d)) <= topn => Shared(d) \subseteq Range(why)

DocOfRow(r) == CHOOSE d \in Range(older_docs) : d.url = r.url

\* C8: once sorted, every older document that shares a token with a recent
\* document is in the ranking with a score above 0; its explanation for a
\* topN >= 1 is non-empty, holds shared tokens only, and holds all of them
\* when they are at most topN; and the why_tokens of every result row are
\* such an explanation.
C8_SharedTokenRanked ==
  /\ Took("sort") =>
       \A d \in Range(older_docs) :
         Shared(d) # {} =>
           /\ \E i \in 1..Len(scored) : scored[i][2] = d /\ scored[i][1] > 0
           /\ args.explain_top >= 1 =>
                ExplainsShared(explain_doc(interest, VectorOf(d), args.explain_top), d,
                               args.explain_top)
  /\ (Took("explain_doc") /\ args.explain_top >= 1) =>
       \A i \in 1..Len(results) :
         ExplainsShared(results[i].why_tokens, DocOfRow(results[i]), args.explain_top)

\* the run over "Rust memory safety guide" (recent) and "Rust ownership and
\* borrowing" (older): the older page is recommended because of "rust"
C8_Witness ==
  /\ Done
  /\ rc = 0
  /\ Len(rows) = 2
  /\ \E i \in 1..Len(results) :
       /\ results[i].title = <<"R","u","s","t"," ","o","w","n","e","r","s","h","i","p"," ","a","n","d"," ","b","o","r","r","o","w","i","n","g">>
       /\ results[i].why_tokens = <<<<"r","u","s","t">>>>
       /\ results[i].score > 0

\* ------------------------------------------------------------------------
\* Properties of cosine and explain_doc, called directly
\* ------------------------------------------------------------------------
Returned(fn) == fcall.fn = fn /\ fret # NotReturned

Keys(v) == {v[i][1] : i \in 1..Len(v)}

AllZero(v) == \A i \in 1..Len(v) : v[i][2] = 0

ZeroNorm(v) == AllZero(v) \/ FSqrt(SquareSum(v)) = 0

\* C7: cosine never divides by zero, and returns 0 when the vectors have
\* no token in common, when one of them is empty, and when one of them has
\* a zero norm.
C7_CosineZero ==
  Returned("cosine") =>
    /\ fret[1] # ZeroDivisionError
    /\ (\/ Keys(fcall.a) \cap Keys(fcall.b) = {}
        \/ fcall.a = <<>>
        \/ fcall.b = <<>>
        \/ ZeroNorm(fcall.a)
        \/ ZeroNorm(fcall.b)) => fret[1] = 0

\* cosine returned 0 for two vectors with a common token of non-zero
\* weight in both, the norm of one of them being zero
C7_Witness ==
  /\ Returned("cosine")
  /\ fret[1] = 0
  /\ ZeroNorm(fcall.a)
  /\ ~ZeroNorm(fcall.b)
  /\ \E i \in 1..Len(fcall.a) : \E j \in 1..Len(fcall.b) :
       fcall.a[i][1] = fcall.b[j][1] /\ fcall.a[i][2] > 0 /\ fcall.b[j][2] > 0

\* C9: explain_doc returns at most topN tokens, none of them twice, and
\* none at all for topN <= 0.
C9_AtMostTopN ==
  Returned("explain_doc") =>
    /\ Len(fret[1]) <= Max(fcall.topn, 0)
    /\ \A i, j \in 1..Len(fret[1]) : i # j => fret[1][i] # fret[1][j]
    /\ fcall.topn <= 0 => fret[1] = <<>>

\* the product of the candidate's and the interest vector's weight of t
Product(t) == FMul(DictGet(fcall.doc_vec, t, 0), DictGet(fcall.interest_vec, t, 0))

PositiveTokens == {t \in Keys(fcall.doc_vec) : Product(t) > 0}

\* explain_doc cut several tokens with a positive product down to one
C9_Witness ==
  /\ Returned("explain_doc")
  /\ fcall.topn = 1
  /\ Cardinality(PositiveTokens) >= 2
  /\ Len(fret[1]) = 1

\* the position at which t was inserted into the candidate vector
Inserted(t) == CHOOSE i \in 1..Len(fcall.doc_vec) : fcall.doc_vec[i][1] = t

\* why is the topn-long head of the tokens with a positive product, put in
\* the strict order Before
TopBy(why, topn, Before(_, _)) ==
  /\ Len(why) = Min(Max(topn, 0), Cardinality(PositiveTokens))
  /\ Range(why) \subseteq PositiveTokens
  /\ \A i \in 1..(Len(why) - 1) : Before(why[i], why[i + 1])
  /\ \A t \in PositiveTokens \ Range(why) : \A i \in 1..Len(why) : Before(why[i], t)

ByProductThenInsertion(t, u) ==
  Product(t) > Product(u) \/ (Product(t) = Product(u) /\ Inserted(t) < Inserted(u))

\* C10: explain_doc returns the topN tokens of highest positive
\* product in descending order of product, tokens of equal product in the
\* order of their insertion into the candidate vector.
C10_Claimed ==
  Returned("explain_doc") => TopBy(fret[1], fcall.topn, ByProductThenInsertion)


\* ------------------------------------------------------------------------
\* Properties of the clusters
\* ------------------------------------------------------------------------
Labelled == Took("cluster")

Other == <<"o","t","h","e","r">>

\* the product of token t of the document of row r with the interest vector
Contribution(r, t) ==
  FMul(DictGet(VectorOf(DocOfRow(r)), t, 0), DictGet(interest, t, 0))

\* C11: once labelled, every result carries one label: with clustering
\* enabled and at least one explanation token, its first explanation token,
\* which no token of its document exceeds in contribution; otherwise its
\* host, or "other" when the host is empty.  The printed rows are the
\* labelled results.
C11_ClusterLabel ==
  Labelled =>
    /\ \A i \in 1..Len(results) :
         LET r == results[i]
         IN IF ~args.no_cluster /\ r.why_tokens # <<>>
            THEN /\ r.cluster = r.why_tokens[1]
                 /\ \A t \in Range(DocOfRow(r).tokens) :
                      Contribution(r, t) <= Contribution(r, r.cluster)
            ELSE IF r.host # <<>> THEN r.cluster = r.host
            ELSE r.cluster = Other
    /\ Done => SameBag(EmittedRows(stdout), results)

\* a finished run that labelled a result with explanation tokens rust,
\* safety as "rust"
C11_Witness ==
  /\ Done
  /\ rc = 0
  /\ \E i \in 1..Len(results) :
       /\ results[i].why_tokens = <<<<"r","u","s","t">>, <<"s","a","f","e","t","y">>>>
       /\ results[i].cluster = <<"r","u","s","t">>

\* the results labelled L
Members(rws, L) == {j \in 1..Len(rws) : rws[j].cluster = L}

\* the explanation tokens of the members of L, and how often each occurs
MemberTokens(rws, L) == UNION {Range(rws[j].why_tokens) : j \in Members(rws, L)}

Frequency(rws, L, t) ==
  Cardinality(UNION { { <<j, k>> : k \in {n \in 1..Len(rws[j].why_tokens) : rws[j].why_tokens[n] = t} } :
                      j \in Members(rws, L) })

\* t stands before u: more frequent, or as frequent and alphabetically first
MoreFrequent(rws, L, t, u) ==
  \/ Frequency(rws, L, t) > Frequency(rws, L, u)
  \/ Frequency(rws, L, t) = Frequency(rws, L, u) /\ StrLess(t, u)

\* summaries holds one summary per label of rws, with the number of its
\* members and its topn first tokens by MoreFrequent
SummaryOf(rws, summaries, topn) ==
  /\ {summaries[i][1] : i \in 1..Len(summaries)} = {rws[j].cluster : j \in 1..Len(rws)}
  /\ \A i, k \in 1..Len(summaries) : i # k => summaries[i][1] # summaries[k][1]
  /\ SumSeq([i \in 1..Len(summaries) |-> summaries[i][2].count]) = Len(rws)
  /\ \A i \in 1..Len(summaries) :
       LET L == summaries[i][1]
           top == summaries[i][2].top_tokens
       IN /\ summaries[i][2].count = Cardinality(Members(rws, L))
          /\ Len(top) = Min(topn, Cardinality(MemberTokens(rws, L)))
          /\ Range(top) \subseteq MemberTokens(rws, L)
          /\ \A a \in 1..(Len(top) - 1) : MoreFrequent(rws, L, top[a], top[a + 1])
          /\ \A t \in MemberTokens(rws, L) \ Range(top) :
               \A a \in 1..Len(top) : MoreFrequent(rws, L, top[a], t)

\* C12: build_cluster_summary gives every label one summary whose count is
\* the number of results with that label (the counts add up to the number
\* of results) and whose top_tokens are the at most topn most frequent
\* explanation tokens of those results, most frequent first, equally
\* frequent ones in ascending alphabetical order; main's summaries are
\* those of its results for topn = 5.
C12_ClusterSummary ==
  /\ Returned("build_cluster_summary") => SummaryOf(fcall.rows, fret[1], fcall.topn)
  /\ (Labelled /\ ~args.no_cluster) => SummaryOf(results, cluster_summaries, ClusterTopN)

\* a call that cut a cluster of three tokens, two of them equally frequent
\* and inserted against the alphabet, down to two
C12_Witness ==
  /\ Returned("build_cluster_summary")
  /\ fcall.topn = 2
  /\ \E i \in 1..Len(fret[1]) :
       LET L == fret[1][i][1]
           top == fret[1][i][2].top_tokens
       IN /\ Cardinality(MemberTokens(fcall.rows, L)) >= 3
          /\ Len(top) = 2
          /\ Frequency(fcall.rows, L, top[1]) = Frequency(fcall.rows, L, top[2])
          /\ fret[1][i][2].count >= 2

\* the labels of rws in the order of their first appearance
RECURSIVE FirstAppearance(_, _)
FirstAppearance(rws, seen) ==
  IF rws = <<>> THEN seen
  ELSE FirstAppearance(Tail(rws),
                       IF rws[1].cluster \in Range(seen) THEN seen
                       ELSE Append(seen, rws[1].cluster))

\* the cluster names a printer wrote, in the order written
EmittedClusters(out) ==
  LET IsCluster(line) == line[1] \in {"cluster", "group"}
      headings == SelectSeq(out, IsCluster)
  IN [i \in 1..Len(headings) |-> headings[i][2]]

\* C13: a run that prints clusters (table or json output, clustering
\* enabled) writes each cluster label once, in the order in which the
\* labels first appear in the score-sorted results; the summaries are
\* keyed in that order too.
C13_Claimed ==
  (Done /\ rc = 0 /\ ~args.no_cluster /\ args.format \in {"table", "json"}) =>
    /\ EmittedClusters(stdout) = FirstAppearance(results, <<>>)
    /\ [i \in 1..Len(cluster_summaries) |-> cluster_summaries[i][1]]
         = FirstAppearance(results, <<>>)

\* ------------------------------------------------------------------------
\* Properties of the inputs of a run
\* ------------------------------------------------------------------------
\* the recent and the older documents for a current time t
PartitionAt(t) ==
  LET Recent(d) == IsRecent(d, t - args.recent_days)
      Older(d) == IsOlder(d, t - args.recent_days)
  IN <<SelectSeq(docs, Recent), SelectSeq(docs, Older)>>

\* C14: a run is determined by its explicit inputs, the history rows and
\* the command line, and main has no parameter for the current time: so
\* the recent and older documents of a run, and with them its output, are
\* the same whatever the clock shows during the run.
C14_Claimed ==
  Took("split") =>
    \A t \in Clock : <<recent_docs, older_docs>> = PartitionAt(t)

\* ------------------------------------------------------------------------
\* Properties of the vectors
\* ------------------------------------------------------------------------
\* the documents of the filtered set that hold token t
Holding(t) == {i \in 1..Len(docs) : \E k \in 1..Len(docs[i].tokens) : docs[i].tokens[k] = t}

\* C15: once vectorized, there is one vector per filtered document, in the
\* documents' order; the keys of a vector are its document's tokens, each
\* once; the weight of a token is its number of occurrences in the
\* document times the idf for N = all filtered documents (the recent and
\* the older ones together) and df = the number of those documents that
\* hold the token, and 1 <= df <= N.
C15_Vectors ==
  Took("tfidf_vectors") =>
    /\ Len(vectors) = Len(docs)
    /\ Len(docs) = Len(recent_docs) + Len(older_docs)
    /\ \A i \in 1..Len(docs) :
         LET v == vectors[i]
         IN /\ Keys(v) = Range(docs[i].tokens)
            /\ Len(v) = Cardinality(Keys(v))
            /\ \A j \in 1..Len(v) :
                 LET df == Cardinality(Holding(v[j][1]))
                 IN /\ 1 <= df
                    /\ df <= Len(docs)
                    /\ v[j][2] = Occurrences(docs[i].tokens, v[j][1]) * Idf(Len(docs), df)

\* vectors of three documents, recent and older, one of which repeats a
\* token that another document holds too
C15_Witness ==
  /\ Took("tfidf_vectors")
  /\ Len(docs) = 3
  /\ older_docs # <<>>
  /\ \E i \in 1..Len(docs) : \E t \in Range(docs[i].tokens) :
       /\ Occurrences(docs[i].tokens, t) = 2
       /\ Cardinality(Holding(t)) = 2

\* the weight of vector i of a call of aggregate_vector: 1.0 when no
\* weights are supplied
WeightOf(i) == IF fcall.weights = <<>> THEN Scale ELSE fcall.weights[i]

\* every vector of the call has a weight
Weighted == fcall.weights = <<>> \/ Len(fcall.weights) >= Len(fcall.vectors)

\* C16: aggregate_vector, called with no weights or with a weight for
\* every vector, returns a map whose keys are the keys of all the vectors,
\* each once, and whose value for a token is the sum over the vectors of
\* weight times the vector's value for the token (1.0 being the weight when
\* none are supplied), not normalized; without vectors the map is empty.
C16_WeightedSum ==
  (Returned("aggregate_vector") /\ Weighted) =>
    LET agg == fret[1]
        vs == fcall.vectors
    IN /\ agg # IndexError
       /\ Keys(agg) = UNION {Keys(vs[i]) : i \in 1..Len(vs)}
       /\ Len(agg) = Cardinality(Keys(agg))
       /\ \A j \in 1..Len(agg) :
            agg[j][2] = SumSeq([i \in 1..Len(vs) |-> FMul(DictGet(vs[i], agg[j][1], 0), WeightOf(i))])
       /\ vs = <<>> => agg = <<>>

\* a call that added two vectors sharing a token under two different
\* weights
C16_Witness ==
  /\ Returned("aggregate_vector")
  /\ Len(fcall.vectors) = 2
  /\ Len(fcall.weights) = 2
  /\ fcall.weights[1] # fcall.weights[2]
  /\ fcall.weights[1] # 0
  /\ fcall.weights[2] # 0
  /\ Keys(fcall.vectors[1]) \cap Keys(fcall.vectors[2]) # {}
  /\ fcall.vectors[1] # fcall.vectors[2]

\* no recent document, or none with a token
NothingToAggregate == \A i \in 1..Len(recent_docs) : recent_docs[i].tokens = <<>>

\* C17: the interest vector is empty exactly when there is no recent
\* document or no recent document has a token, and a run in that case ends
\* with 1 and one message, without a result row; it never returns 0.
C17_EmptyInterest ==
  /\ Took("aggregate_vector") => (interest = <<>> <=> NothingToAggregate)
  /\ (Done /\ Took("split") /\ NothingToAggregate) =>
       /\ rc = 1
       /\ Cardinality(Messages(stdout)) = 1
       /\ EmittedRows(stdout) = <<>>

\* a finished run whose recent documents have no token while an older
\* document has some
C17_Witness ==
  /\ Done
  /\ Took("aggregate_vector")
  /\ recent_docs # <<>>
  /\ interest = <<>>
  /\ \E i \in 1..Len(older_docs) : older_docs[i].tokens # <<>>

\* ------------------------------------------------------------------------
\* Properties of the documents
\* ------------------------------------------------------------------------
\* C18: build_docs does not fail and returns one document per row, in the
\* rows' order and with the row's id; a url that urlparse does not accept
\* gives an empty host, a null visit_count gives 0 and an absent last
\* visit stays unset.
C18_Claimed ==
  Took("build_docs") =>
    LET built == build_docs(rows)
    IN /\ ~BuildRaises(rows)
       /\ \A i \in 1..Len(stdout) : stdout[i][1] # "traceback"
       /\ Len(built) = Len(rows)
       /\ \A i \in 1..Len(rows) :
            /\ built[i].id = rows[i][1]
            /\ UrlParseFails(rows[i][2]) => built[i].host = <<>>
            /\ rows[i][4] = None => built[i].visit_count = 0
            /\ rows[i][5] = None => built[i].last_visit = None

\* the documents of the history that have no last visit
Undated == {BuildDoc(rows[i]) : i \in {j \in 1..Len(rows) : rows[j][5] = None}}

\* C19: whatever the command line, once the documents are split a document
\* without last visit is not among the recent ones, and if it has enough
\* visits and passes the reading filter it is still among the filtered
\* documents, which are vectorized, and among the older ones, which are
\* scored.
C19_Claimed ==
  Took("split") =>
    \A d \in Undated :
      /\ d \notin Range(recent_docs)
      /\ (EnoughVisits(d) /\ ReadingCandidate(d)) =>
           (d \in Range(docs) /\ d \in Range(older_docs))

\* ------------------------------------------------------------------------
\* Properties of the result list
\* ------------------------------------------------------------------------
\* the first candidate of every host, in order
RECURSIVE FirstPerHost(_, _)
FirstPerHost(list, seen) ==
  IF list = <<>> THEN <<>>
  ELSE IF list[1][2].host \in seen THEN FirstPerHost(Tail(list), seen)
  ELSE <<list[1]>> \o FirstPerHost(Tail(list), seen \cup {list[1][2].host})

\* the score-ordered candidates, one per host under --dedupe-host
Candidates == IF args.dedupe_host THEN FirstPerHost(scored, {}) ELSE scored

\* C20: for every --limit the results are at most limit many, and they are
\* the first candidates of the score-ordered (and, under --dedupe-host,
\* one-per-host) sequence.
C20_Claimed ==
  Took("explain_doc") =>
    /\ Len(results) <= args.limit
    /\ Len(results) <= Len(Candidates)
    /\ \A i \in 1..Len(results) :
         /\ results[i].url = Candidates[i][2].url
         /\ results[i].score = FormatScore(Candidates[i][1])

\* the position in scored of the first candidate of a host, 0 without one
FirstOfHost(host) ==
  LET at == {k \in 1..Len(scored) : scored[k][2].host = host}
  IN IF at = {} THEN 0 ELSE CHOOSE k \in at : \A m \in at : k <= m

\* C21: under --dedupe-host no two results have the same host and each result
\* is the highest-ranked candidate of its host; without --dedupe-host the
\* results are the candidates in rank order with none left out before the
\* limit ends the list.
C21_DedupeHost ==
  Took("explain_doc") =>
    IF args.dedupe_host
    THEN /\ \A i, j \in 1..Len(results) :
              i # j => results[i].host # results[j].host
         /\ \A i \in 1..Len(results) :
              /\ FirstOfHost(results[i].host) # 0
              /\ results[i].url = scored[FirstOfHost(results[i].host)][2].url
    ELSE /\ Len(results) <= Len(scored)
         /\ \A i \in 1..Len(results) : results[i].url = scored[i][2].url
         /\ Len(results) = Len(scored) \/ Len(results) >= args.limit

\* two candidates of one host, the lower-ranked one left out of the results
\* although the limit was not reached
C21_Witness ==
  /\ Took("explain_doc")
  /\ args.dedupe_host
  /\ results # <<>>
  /\ Len(results) < args.limit
  /\ \E k \in 1..Len(scored) :
       /\ FirstOfHost(scored[k][2].host) < k
       /\ \A i \in 1..Len(results) : results[i].url # scored[k][2].url

\* ------------------------------------------------------------------------
\* Properties of tokenize
\* ------------------------------------------------------------------------
\* the maximal runs of [a-z0-9] in a text, as pairs of first and last position
MaximalRuns(text) ==
  { r \in (1..Len(text)) \X (1..Len(text)) :
      /\ r[1] <= r[2]
      /\ \A k \in r[1]..r[2] : text[k] \in Range(LowerAZ) \cup Range(Digits)
      /\ r[1] = 1 \/ text[r[1] - 1] \notin Range(LowerAZ) \cup Range(Digits)
      /\ r[2] = Len(text) \/ text[r[2] + 1] \notin Range(LowerAZ) \cup Range(Digits) }

\* the runs of at least three characters that are not stop words
KeptRuns(text) ==
  { r \in MaximalRuns(text) :
      r[2] - r[1] + 1 >= 3 /\ SubSeq(text, r[1], r[2]) \notin STOPWORDS }

\* tokens are the kept runs of text, in order of occurrence
TokensOf(tokens, text) ==
  /\ Len(tokens) = Cardinality(KeptRuns(text))
  /\ \A r \in KeptRuns(text) :
       tokens[Cardinality({q \in KeptRuns(text) : q[1] < r[1]}) + 1]
         = SubSeq(text, r[1], r[2])

\* C22: tokenize returns, in order of occurrence, the maximal runs of
\* [a-z0-9] of length >= 3 of the lower-cased text that are not stop words;
\* None and the empty text give the empty sequence; the call always returns
\* a sequence; 'The Quick Fox runs!' gives quick, fox, runs.
C22_Tokenize ==
  (fcall.fn = "tokenize" /\ fret # NotReturned) =>
    /\ fcall.text \in {NoneText, <<>>} => fret[1] = <<>>
    /\ fcall.text # NoneText => TokensOf(fret[1], Lower(fcall.text))
    /\ fcall.text = <<"T","h","e"," ","Q","u","i","c","k"," ","F","o","x"," ","r","u","n","s","!">> =>
         fret[1] = <<<<"q","u","i","c","k">>, <<"f","o","x">>, <<"r","u","n","s">>>>

\* a text with an upper-case letter, a stop word, a short run and two kept
\* tokens has been tokenized
C22_Witness ==
  /\ fcall.fn = "tokenize"
  /\ fret # NotReturned
  /\ fcall.text # NoneText
  /\ Lower(fcall.text) # fcall.text
  /\ Len(fret[1]) >= 2
  /\ Cardinality(MaximalRuns(Lower(fcall.text))) > Len(fret[1]) + 1

\* ------------------------------------------------------------------------
\* Properties of the recent / older split
\* ------------------------------------------------------------------------
\* the positions in docs of the documents of list, in the order of list
PositionsIn(list) == [k \in 1..Len(list) |-> DocIndex(docs, list[k].id)]

\* list holds documents of docs in the order of docs, none twice
InDocOrder(list) ==
  /\ \A k \in 1..Len(list) : list[k] \in Range(docs)
  /\ \A a, b \in 1..Len(list) : a < b => PositionsIn(list)[a] < PositionsIn(list)[b]

\* C23: once the split is made, every filtered document is in exactly one
\* of recent_docs and older_docs, in recent_docs exactly if it has a
\* last_visit at or after the cutoff; both lists keep the order of the
\* documents; every scored candidate and every result is an older document
\* and none lies inside the recency window.
C23_SplitPartition ==
  Took("split") =>
    LET cutoff == now - args.recent_days
    IN /\ \A d \in Range(docs) :
            /\ d \in Range(recent_docs) <=> (d.last_visit # None /\ d.last_visit >= cutoff)
            /\ d \in Range(older_docs) <=> d \notin Range(recent_docs)
       /\ InDocOrder(recent_docs)
       /\ InDocOrder(older_docs)
       /\ Len(recent_docs) + Len(older_docs) = Len(docs)
       /\ \A k \in 1..Len(scored) :
            /\ scored[k][2] \in Range(older_docs)
            /\ scored[k][2] \notin Range(recent_docs)
            /\ scored[k][2].last_visit = None \/ scored[k][2].last_visit < cutoff
       /\ \A i \in 1..Len(results) :
            \E k \in 1..Len(scored) :
              /\ results[i].url = scored[k][2].url
              /\ results[i].last_visit = scored[k][2].last_visit

\* a run that filtered a row out, split the rest into recent documents and
\* older ones, one of them undated, and returned the undated one
C23_Witness ==
  /\ Took("explain_doc")
  /\ Len(docs) < Len(rows)
  /\ recent_docs # <<>>
  /\ \E d \in Range(older_docs) : d.last_visit = None
  /\ \E i \in 1..Len(results) : results[i].last_visit = None
============================================================================
